---- MODULE Spec2Model ----
(***************************************************************************)
(* A model of CytoPy's population tree (src/CytoPy/data/fcs.py): the       *)
(* GridFS-backed index files of Population, ControlIndex and Cluster, the  *)
(* cluster list of a Population, the population list, the controls and the *)
(* clusters of a FileGroup, the shape and overlap of a PopulationGeometry, *)
(* and merge_populations.                                                  *)
(***************************************************************************)
EXTENDS Integers, Sequences, FiniteSets, TLC

\* ------------------------------------------------------------------ bounds
MaxId == 2          \* event ids are 1..MaxId
MaxLen == 2         \* longest index array
MaxN == 2           \* largest population of a tree (events)
MaxSaves == 3       \* runs of FileGroup.save() in one behaviour
MaxClusters == 2    \* longest cluster list of a population
MaxPops == 3        \* longest population list of a FileGroup
MaxFiles == 2       \* longest file list of a FileGroup
MaxGated == 2       \* populations of a tree whose controls are listed
MaxCtrls == 1       \* longest control index list of such a population
MaxCoord == 3       \* plot coordinates are 0..MaxCoord

\* ------------------------------------------------------------ data values
\* Python's None and a value that is not None, kept apart from the empty array.
None == [isNone |-> TRUE, arr |-> <<>>]
Some(s) == [isNone |-> FALSE, arr |-> s]

EventIds == 1..MaxId
Injective(s) == \A i, j \in DOMAIN s : i # j => s[i] # s[j]
\* Index arrays: row labels of the event table, each at most once, in any order.
Arrays == {s \in UNION {[1..n -> EventIds] : n \in 0..MaxLen} : Injective(s)}
Data == {None} \cup {Some(s) : s \in Arrays}

\* pickle.dumps(x, protocol=2) as a byte string that is never empty: None is the
\* single byte 0, an array is its length plus one followed by its elements.
Dumps(d) == IF d.isNone THEN <<0>> ELSE <<Len(d.arr) + 1>> \o d.arr
\* pickle.loads(b): EOFError on the empty byte string.
Loads(b) ==
    IF b = <<>> THEN [err |-> "EOFError", val |-> None]
    ELSE IF b[1] = 0 THEN [err |-> "", val |-> None]
    ELSE [err |-> "", val |-> Some(SubSeq(b, 2, b[1]))]

\* ------------------------------------------------- mongoengine GridFSProxy
\* A FileField's proxy: grid_id (0: no file) and whether its cached GridOut has
\* been read to the end. A store maps the ids of the live files to their bytes.
NoFile == [grid_id |-> 0, exhausted |-> FALSE]
EmptyStore == [k \in {} |-> <<>>]
StorePut(st, key, bytes) == [k \in DOMAIN st \cup {key} |-> IF k = key THEN bytes ELSE st[k]]
StoreDelete(st, key) == [k \in DOMAIN st \ {key} |-> st[k]]
\* The ObjectId of a new file: an id no live file has and no committed document
\* mentions (refs). Ids are opaque, so the least such id stands for any.
FreshKey(st, refs) ==
    LET used == DOMAIN st \cup refs
    IN  CHOOSE k \in 1..(Cardinality(used) + 1) :
            k \notin used /\ \A j \in 1..(k - 1) : j \in used

\* bool(proxy): `if self._index_file:` / `if self.index:`
ProxyBool(px) == px.grid_id # 0

\* proxy.new_file(); proxy.write(bytes); proxy.close()
ProxyWriteNew(px, st, bytes, key) ==
    [px |-> [px EXCEPT !.grid_id = key], st |-> StorePut(st, key, bytes)]

\* proxy.replace(bytes): delete the old file (dropping the cached GridOut), put
\* a new one.
ProxyReplace(px, st, bytes, key) ==
    [px |-> [grid_id |-> key, exhausted |-> FALSE],
     st |-> StorePut(StoreDelete(st, px.grid_id), key, bytes)]

\* proxy.read(): None without a file; otherwise the cached GridOut's remaining
\* bytes, which are all of them on the first read and none afterwards (File.get
\* has to seek(0) before it reads for this reason). fetched: bytes were pulled
\* from the store.
ProxyRead(px, st) ==
    IF px.grid_id = 0 \/ px.grid_id \notin DOMAIN st
    THEN [px |-> px, data |-> None, fetched |-> FALSE]
    ELSE IF px.exhausted
    THEN [px |-> px, data |-> Some(<<>>), fetched |-> FALSE]
    ELSE [px |-> [px EXCEPT !.exhausted = TRUE], data |-> Some(st[px.grid_id]), fetched |-> TRUE]

\* Python truthiness of what read() returned: None and b'' are false.
Truthy(data) == ~data.isNone /\ data.arr # <<>>

\* ---------------------------------------------------------------- Cluster
\* Cluster.save_index(data): the result, with the branch taken.
ClusterSaveIndex(c, st, data, key) ==
    IF ProxyBool(c.index)
    THEN LET r == ProxyReplace(c.index, st, Dumps(data), key)
         IN [obj |-> [c EXCEPT !.index = r.px], st |-> r.st, err |-> "", branch |-> "replace"]
    ELSE LET r == ProxyWriteNew(c.index, st, Dumps(data), key)
         IN [obj |-> [c EXCEPT !.index = r.px], st |-> r.st, err |-> "", branch |-> "new"]

\* Cluster.load_index(): pickle.loads(bytes(self.index.read())); bytes(None) is
\* a TypeError.
ClusterLoadIndex(c, st) ==
    LET r == ProxyRead(c.index, st)
        o == [c EXCEPT !.index = r.px]
    IN IF r.data.isNone
       THEN [obj |-> o, res |-> None, err |-> "TypeError", fetched |-> r.fetched]
       ELSE LET v == Loads(r.data.arr)
            IN [obj |-> o, res |-> v.val, err |-> v.err, fetched |-> r.fetched]

\* ----------------------------------------------------------- ControlIndex
\* ControlIndex.save_index(data): guarded by self.index, writes data.
ControlSaveIndex(c, st, data, key) ==
    IF c.index.isNone
    THEN [obj |-> c, st |-> st, err |-> "", branch |-> "none"]
    ELSE IF ProxyBool(c.index_file)
    THEN LET r == ProxyReplace(c.index_file, st, Dumps(data), key)
         IN [obj |-> [c EXCEPT !.index_file = r.px], st |-> r.st, err |-> "", branch |-> "replace"]
    ELSE LET r == ProxyWriteNew(c.index_file, st, Dumps(data), key)
         IN [obj |-> [c EXCEPT !.index_file = r.px], st |-> r.st, err |-> "", branch |-> "new"]

\* load_index() of ControlIndex and of Population (the same code): a falsy
\* read returns None and leaves self.index alone.
LazyLoadIndex(o, st) ==
    LET r == ProxyRead(o.index_file, st)
        o1 == [o EXCEPT !.index_file = r.px]
    IN IF Truthy(r.data)
       THEN LET v == Loads(r.data.arr)
            IN [obj |-> [o1 EXCEPT !.index = v.val], res |-> v.val, err |-> v.err, fetched |-> r.fetched]
       ELSE [obj |-> o1, res |-> None, err |-> "", fetched |-> r.fetched]
ControlLoadIndex(c, st) == LazyLoadIndex(c, st)

\* ------------------------------------------------------------- Population
\* Population.save_index(): asserts self.index is not None, writes self.index.
PopulationSaveIndexNeverReplacing(p, st, key) ==
    IF p.index.isNone
    THEN [obj |-> p, st |-> st, err |-> "AssertionError", branch |-> "none"]
    ELSE LET r == ProxyWriteNew(p.index_file, st, Dumps(p.index), key)
         IN [obj |-> [p EXCEPT !.index_file = r.px], st |-> r.st, err |-> "", branch |-> "new"]
PopulationSaveIndex(p, st, key) ==
    IF p.index.isNone
    THEN [obj |-> p, st |-> st, err |-> "AssertionError", branch |-> "none"]
    ELSE IF ProxyBool(p.index_file)
    THEN LET r == ProxyReplace(p.index_file, st, Dumps(p.index), key)
         IN [obj |-> [p EXCEPT !.index_file = r.px], st |-> r.st, err |-> "", branch |-> "replace"]
    ELSE LET r == ProxyWriteNew(p.index_file, st, Dumps(p.index), key)
         IN [obj |-> [p EXCEPT !.index_file = r.px], st |-> r.st, err |-> "", branch |-> "new"]
PopulationLoadIndex(p, st) == LazyLoadIndex(p, st)

\* Population.n
PopN(p) == IF p.index.isNone THEN 0 ELSE Len(p.index.arr)

\* -------------------------------------------------------------- FileGroup
\* A FloatField: unset (None), or the quotient num/den of a true division.
NoProp == [isNone |-> TRUE, num |-> 0, den |-> 1]
Ratio(a, b) == [isNone |-> FALSE, num |-> a, den |-> b]

\* Population(population_name=..., parent=..., index=..., control_idx=...)
NewPopulation(name, parent, index, ctrls) ==
    [population_name |-> name, parent |-> parent, index |-> index, index_file |-> NoFile,
     prop_of_parent |-> NoProp, prop_of_total |-> NoProp,
     control_idx |-> ctrls, clusters |-> <<>>]
\* ControlIndex(control_id=..., index=...)
NewControlIndex(id, index) == [control_id |-> id, index |-> index, index_file |-> NoFile]

\* The document mongoengine writes for the FileGroup: the fields of each
\* population, a FileField as the id of its file. The in-memory index attributes
\* are no fields.
ControlDocument(c) == [control_id |-> c.control_id, index_key |-> c.index_file.grid_id]
PopulationDocument(p) ==
    [population_name |-> p.population_name, parent |-> p.parent,
     prop_of_parent |-> p.prop_of_parent, prop_of_total |-> p.prop_of_total,
     index_key |-> p.index_file.grid_id,
     control_idx |-> [j \in DOMAIN p.control_idx |-> ControlDocument(p.control_idx[j])],
     clusters |-> p.clusters]
DocumentOf(pops) == [saved |-> TRUE, populations |-> [i \in DOMAIN pops |-> PopulationDocument(pops[i])]]
NoDocument == [saved |-> FALSE, populations |-> <<>>]
\* The population index files a document mentions.
IndexKeys(doc) == {doc.populations[i].index_key : i \in DOMAIN doc.populations} \ {0}

Named(pops, name) ==
    LET Is(q) == q.population_name = name IN SelectSeq(pops, Is)
\* [p for p in self.populations if p.population_name == p.parent]: the
\* comprehension's own p hides the loop's p.
ParentCandidates(pops, p) ==
    LET Own(q) == q.population_name = q.parent IN SelectSeq(pops, Own)

Failed(pops, st, err) == [pops |-> pops, fs |-> st, err |-> err]

\* The loop of FileGroup.save from population i on; an exception leaves what
\* the earlier iterations assigned and wrote.
RECURSIVE SaveLoop(_, _, _, _, _)
SaveLoop(pops, i, st, refs, root_n) ==
    IF i > Len(pops) THEN Failed(pops, st, "")
    ELSE
    LET p == pops[i]
        cand == ParentCandidates(pops, p)
    IN  IF cand = <<>> THEN Failed(pops, st, "IndexError")
        ELSE IF PopN(cand[1]) = 0 THEN Failed(pops, st, "ZeroDivisionError")
        ELSE
        LET p1 == [p EXCEPT !.prop_of_parent = Ratio(PopN(p), PopN(cand[1]))]
        IN  IF root_n = 0 THEN Failed([pops EXCEPT ![i] = p1], st, "ZeroDivisionError")
            ELSE
            LET p2 == [p1 EXCEPT !.prop_of_total = Ratio(PopN(p), root_n)]
            IN  \* ctrl.save_index() lacks the data argument
                IF p2.control_idx # <<>> THEN Failed([pops EXCEPT ![i] = p2], st, "TypeError")
                ELSE
                LET r == PopulationSaveIndex(p2, st["population_indexes"],
                                             FreshKey(st["population_indexes"], refs))
                IN  IF r.err # "" THEN Failed([pops EXCEPT ![i] = p2], st, r.err)
                    ELSE SaveLoop([pops EXCEPT ![i] = r.obj], i + 1,
                                  [st EXCEPT !["population_indexes"] = r.st], refs, root_n)

\* FileGroup.save(): root_n, the loop, then Document.save().
FileGroupSave(pops, st, refs) ==
    IF Named(pops, "root") = <<>> THEN Failed(pops, st, "IndexError")
    ELSE SaveLoop(pops, 1, st, refs, PopN(Named(pops, "root")[1]))

\* FileGroup.get_population(population_name)
RECURSIVE LoadControls(_, _, _)
LoadControls(ctrls, j, st) ==
    IF j > Len(ctrls) THEN [ctrls |-> ctrls, err |-> ""]
    ELSE LET r == ControlLoadIndex(ctrls[j], st)
         IN IF r.err # "" THEN [ctrls |-> [ctrls EXCEPT ![j] = r.obj], err |-> r.err]
            ELSE LoadControls([ctrls EXCEPT ![j] = r.obj], j + 1, st)
FirstNamed(pops, name) == CHOOSE i \in DOMAIN pops :
    /\ pops[i].population_name = name
    /\ \A j \in 1..(i - 1) : pops[j].population_name # name
FileGroupGetPopulation(pops, st, name) ==
    LET m == Named(pops, name)
    IN  IF m = <<>> THEN [pops |-> pops, err |-> "AssertionError: does not exist"]
        ELSE IF Len(m) # 1 THEN [pops |-> pops, err |-> "AssertionError: multiple populations"]
        ELSE
        LET i == FirstNamed(pops, name)
            r == PopulationLoadIndex(pops[i], st["population_indexes"])
        IN  IF r.err # "" THEN [pops |-> [pops EXCEPT ![i] = r.obj], err |-> r.err]
            ELSE LET c == LoadControls(r.obj.control_idx, 1, st["control_indexes"])
                 IN [pops |-> [pops EXCEPT ![i] = [r.obj EXCEPT !.control_idx = c.ctrls]], err |-> c.err]

\* ----------------------------------------------------- Population clusters
\* Cluster(cluster_id=..., meta_cluster_id=..., cluster_experiment=...); an
\* unset meta_cluster_id is "".
NewCluster(id, meta, uid) ==
    [cluster_id |-> id, meta_cluster_id |-> meta, cluster_experiment |-> uid, index |-> NoFile]

Range(s) == {s[i] : i \in DOMAIN s}
RECURSIVE Ascending(_)
Ascending(S) ==
    IF S = {} THEN <<>>
    ELSE LET m == CHOOSE x \in S : \A y \in S : x <= y
         IN <<m>> \o Ascending(S \ {m})
\* np.concatenate(idx, axis=0)
RECURSIVE NpConcatenate(_)
NpConcatenate(arrs) == IF arrs = <<>> THEN <<>> ELSE Head(arrs) \o NpConcatenate(Tail(arrs))
\* np.unique(a, axis=0): the sorted distinct elements
NpUniqueKeepingDuplicates(a) == a
NpUnique(a) == Ascending(Range(a))

\* [c for c in self.clusters if c.meta_cluster_id == cluster_id] and
\* [c for c in self.clusters if c.cluster_id == cluster_id], as positions in
\* list order.
PositionsByMeta(cs, cluster_id) == Ascending({i \in DOMAIN cs : cs[i].meta_cluster_id = cluster_id})
PositionsById(cs, cluster_id) == Ascending({i \in DOMAIN cs : cs[i].cluster_id = cluster_id})

\* [c.load_index() for c in clusters]: the first load that raises ends it, with
\* the files of the clusters before it read.
RECURSIVE LoadClusters(_, _, _, _, _)
LoadClusters(cs, sel, k, st, loaded) ==
    IF k > Len(sel) THEN [cs |-> cs, loaded |-> loaded, err |-> ""]
    ELSE LET r == ClusterLoadIndex(cs[sel[k]], st)
             cs1 == [cs EXCEPT ![sel[k]] = r.obj]
         IN IF r.err # "" THEN [cs |-> cs1, loaded |-> loaded, err |-> r.err]
            ELSE LoadClusters(cs1, sel, k + 1, st, Append(loaded, r.res))

\* Population.get_cluster(cluster_id, meta): the clusters returned (their
\* positions in self.clusters) and the index array.
PopulationGetCluster(p, st, cluster_id, meta) ==
    LET sel == IF meta THEN PositionsByMeta(p.clusters, cluster_id)
                       ELSE PositionsById(p.clusters, cluster_id)
        Raise(cs, e) == [pop |-> [p EXCEPT !.clusters = cs], clusters |-> <<>>, idx |-> None, err |-> e]
    IN  IF sel = <<>> THEN Raise(p.clusters, "AssertionError")
        ELSE IF meta
        THEN LET r == LoadClusters(p.clusters, sel, 1, st, <<>>)
             IN IF r.err # "" THEN Raise(r.cs, r.err)
                \* np.concatenate of a None raises
                ELSE IF \E k \in DOMAIN r.loaded : r.loaded[k].isNone THEN Raise(r.cs, "ValueError")
                ELSE [pop |-> [p EXCEPT !.clusters = r.cs], clusters |-> sel,
                      idx |-> Some(NpUnique(NpConcatenate([k \in DOMAIN r.loaded |-> r.loaded[k].arr]))),
                      err |-> ""]
        ELSE IF Len(sel) # 1 THEN Raise(p.clusters, "AssertionError")
        ELSE LET r == ClusterLoadIndex(p.clusters[sel[1]], st)
                 cs1 == [p.clusters EXCEPT ![sel[1]] = r.obj]
             IN IF r.err # "" THEN Raise(cs1, r.err)
                ELSE [pop |-> [p EXCEPT !.clusters = cs1], clusters |-> sel, idx |-> r.res, err |-> ""]

\* ------------------------------------------------- clustering definitions
\* A ReferenceField holds the id of a ClusteringDefinition document, or nothing.
NoRef == ""
\* c.cluster_experiment.clustering_uid: an unset reference is None, which has no
\* such attribute; a reference to a document that is gone raises DoesNotExist.
ExperimentUid(defs, c) ==
    IF c.cluster_experiment = NoRef THEN [err |-> "AttributeError", uid |-> ""]
    ELSE IF c.cluster_experiment \notin DOMAIN defs THEN [err |-> "DoesNotExist", uid |-> ""]
    ELSE [err |-> "", uid |-> defs[c.cluster_experiment].clustering_uid]

\* Population.update_cluster(cluster_id, new_cluster)
PopulationUpdateCluster(p, cluster_id, new_cluster) ==
    LET Other(c) == c.cluster_id # cluster_id
    IN  [p EXCEPT !.clusters = Append(SelectSeq(p.clusters, Other), new_cluster)]

\* Population.replace_cluster_experiment(current_uid, new_cluster_definition):
\* the loop from cluster k on. DoesNotExist is caught and the cluster re-pointed;
\* any other exception ends the loop.
RECURSIVE ReplaceLoop(_, _, _, _, _)
ReplaceLoop(cs, k, defs, current_uid, new_definition) ==
    IF k > Len(cs) THEN [clusters |-> cs, err |-> ""]
    ELSE LET u == ExperimentUid(defs, cs[k])
             repointed == [cs EXCEPT ![k].cluster_experiment = new_definition]
         IN  IF u.err = "DoesNotExist"
             THEN ReplaceLoop(repointed, k + 1, defs, current_uid, new_definition)
             ELSE IF u.err # "" THEN [clusters |-> cs, err |-> u.err]
             ELSE IF u.uid = current_uid
             THEN ReplaceLoop(repointed, k + 1, defs, current_uid, new_definition)
             ELSE ReplaceLoop(cs, k + 1, defs, current_uid, new_definition)
PopulationReplaceClusterExperiment(p, defs, current_uid, new_definition) ==
    LET r == ReplaceLoop(p.clusters, 1, defs, current_uid, new_definition)
    IN  [pop |-> [p EXCEPT !.clusters = r.clusters], err |-> r.err]


\* ------------------------------------------------------ FileGroup controls
\* s.replace(old, ''), strings as sequences of characters: every occurrence of
\* old, found from the left, is removed.
RECURSIVE StrRemove(_, _)
StrRemove(s, old) ==
    IF Len(s) < Len(old) THEN s
    ELSE IF SubSeq(s, 1, Len(old)) = old THEN StrRemove(SubSeq(s, Len(old) + 1, Len(s)), old)
    ELSE <<Head(s)>> \o StrRemove(Tail(s), old)

\* FileGroup.primary_id
PrimaryId == <<"p">>
\* FileGroup.list_controls()
FileGroupListControls(fls) ==
    LET IsControl(f) == f.file_type = "control"
        ctrl == SelectSeq(fls, IsControl)
    IN  [k \in DOMAIN ctrl |-> StrRemove(ctrl[k].file_id, PrimaryId \o <<"_">>)]

\* Population.get_ctrl(ctrl_id): the first control index of that id, or None.
PopulationGetCtrl(p, ctrl_id) ==
    LET m == {j \in DOMAIN p.control_idx : p.control_idx[j].control_id = ctrl_id}
    IN  IF m = {} THEN [isNone |-> TRUE, ctrl |-> NewControlIndex(ctrl_id, None)]
        ELSE [isNone |-> FALSE, ctrl |-> p.control_idx[CHOOSE j \in m : \A k \in m : j <= k]]

\* FileGroup.list_gated_controls()
FileGroupListGatedControls(fls, pops) ==
    LET Gated(c) == \A i \in DOMAIN pops : ~PopulationGetCtrl(pops[i], c).isNone
    IN  SelectSeq(FileGroupListControls(fls), Gated)

\* ------------------------------------------------------ PopulationGeometry
\* A FloatField: unset (None) or a number.
NoFloat == [isNone |-> TRUE, val |-> 0]
Float(v) == [isNone |-> FALSE, val |-> v]
\* Python truthiness of a FloatField's value: None and 0.0 are false.
FloatTruthy(f) == ~f.isNone /\ f.val # 0

\* PopulationGeometry(x_values=..., y_values=..., width=..., ...); an unset
\* ListField is the empty list.
NewGeometry(xs, ys, w, h, c, a, xt, yt) ==
    [x_values |-> xs, y_values |-> ys, width |-> w, height |-> h, center |-> c,
     angle |-> a, x_threshold |-> xt, y_threshold |-> yt]

\* Shapely geometries: a polygon is its ring of vertices; an ellipse, the
\* buffer of its centre scaled and rotated, is its centre and its half extents
\* along x and y.
NoShape == [kind |-> "none", pts |-> <<>>, center |-> <<>>, rx |-> 0, ry |-> 0]
Polygon(pts) == [kind |-> "polygon", pts |-> pts, center |-> <<>>, rx |-> 0, ry |-> 0]
\* Point(center).buffer(1)
Buffer1(c) == [kind |-> "ellipse", pts |-> <<>>, center |-> c, rx |-> 1, ry |-> 1]
\* affinity.scale(shape, xfact, yfact), about the centre
Scale(sh, xfact, yfact) == [sh EXCEPT !.rx = sh.rx * xfact, !.ry = sh.ry * yfact]
\* affinity.rotate(shape, angle), in degrees about the centre: a quarter turn
\* exchanges the extents, a half turn keeps them.
Rotate(sh, angle) ==
    IF angle % 180 = 90 THEN [sh EXCEPT !.rx = sh.ry, !.ry = sh.rx] ELSE sh

\* zip(x_values, y_values)
Zip(xs, ys) ==
    LET n == IF Len(xs) <= Len(ys) THEN Len(xs) ELSE Len(ys)
    IN  [i \in 1..n |-> <<xs[i], ys[i]>>]

\* PopulationGeometry.shape; a ring of fewer than three points is rejected by
\* shapely.
GeometryShape(g) ==
    IF g.x_values # <<>> /\ g.y_values # <<>>
    THEN LET pts == Zip(g.x_values, g.y_values)
         IN  IF Len(pts) < 3 THEN [err |-> "ValueError", shape |-> NoShape]
             ELSE [err |-> "", shape |-> Polygon(pts)]
    ELSE IF FloatTruthy(g.width) /\ FloatTruthy(g.height) /\ g.center # <<>> /\ FloatTruthy(g.angle)
    THEN [err |-> "", shape |-> Rotate(Scale(Buffer1(g.center), g.width.val, g.height.val), g.angle.val)]
    ELSE [err |-> "", shape |-> NoShape]

\* Shapely's measures. Areas are whole numbers of the unit that keeps them so:
\* half unit squares for a polygon, quarters of the ellipse for an ellipse.
SetMin(S) == CHOOSE x \in S : \A y \in S : x <= y
SetMax(S) == CHOOSE x \in S : \A y \in S : x >= y
\* shape.bounds
Box(sh) ==
    IF sh.kind = "ellipse"
    THEN [x0 |-> sh.center[1] - sh.rx, x1 |-> sh.center[1] + sh.rx,
          y0 |-> sh.center[2] - sh.ry, y1 |-> sh.center[2] + sh.ry]
    ELSE LET xs == {sh.pts[i][1] : i \in DOMAIN sh.pts}
             ys == {sh.pts[i][2] : i \in DOMAIN sh.pts}
         IN  [x0 |-> SetMin(xs), x1 |-> SetMax(xs), y0 |-> SetMin(ys), y1 |-> SetMax(ys)]
BoxIntersects(a, b) ==
    /\ SetMax({a.x0, b.x0}) <= SetMin({a.x1, b.x1})
    /\ SetMax({a.y0, b.y0}) <= SetMin({a.y1, b.y1})
BoxCommonArea(a, b) ==
    LET w == SetMin({a.x1, b.x1}) - SetMax({a.x0, b.x0})
        h == SetMin({a.y1, b.y1}) - SetMax({a.y0, b.y0})
    IN  IF w > 0 /\ h > 0 THEN w * h ELSE 0
BoxContains(a, b) == a.x0 <= b.x0 /\ b.x1 <= a.x1 /\ a.y0 <= b.y0 /\ b.y1 <= a.y1
\* The four boxes between an ellipse's centre and the corners of its bounds,
\* each holding a quarter of it, and the four points where it meets its bounds.
Quadrants(e) ==
    LET b == Box(e)
    IN  {[x0 |-> xs[1], x1 |-> xs[2], y0 |-> ys[1], y1 |-> ys[2]] :
            xs \in {<<b.x0, e.center[1]>>, <<e.center[1], b.x1>>},
            ys \in {<<b.y0, e.center[2]>>, <<e.center[2], b.y1>>}}
Extremes(e) ==
    LET b == Box(e)
    IN  {<<b.x0, e.center[2]>>, <<b.x1, e.center[2]>>, <<e.center[1], b.y0>>, <<e.center[1], b.y1>>}

\* polygon.area, doubled: the shoelace sum over the ring.
PolygonArea2(pts) ==
    LET n == Len(pts)
        Nxt(i) == IF i = n THEN 1 ELSE i + 1
        Cross(i) == pts[i][1] * pts[Nxt(i)][2] - pts[Nxt(i)][1] * pts[i][2]
        RECURSIVE Sum(_)
        Sum(i) == IF i = 0 THEN 0 ELSE Cross(i) + Sum(i - 1)
        t == Sum(n)
    IN  IF t < 0 THEN 0 - t ELSE t
\* shape.area
ShapeArea(sh) == IF sh.kind = "ellipse" THEN 4 ELSE PolygonArea2(sh.pts)

\* shape.intersects(other) and shape.intersection(other).area for a shape and
\* an axis-parallel rectangle with whole-numbered sides: two such rectangles
\* meet as their bounds do; the rectangle meets an ellipse of unit half extents
\* in the quarters it covers, or in a point where the ellipse meets its bounds.
ShapeIntersects(sh, other) ==
    IF sh.kind = "ellipse"
    THEN \/ \E q \in Quadrants(sh) : BoxContains(Box(other), q)
         \/ \E pt \in Extremes(sh) :
               BoxContains(Box(other), [x0 |-> pt[1], x1 |-> pt[1], y0 |-> pt[2], y1 |-> pt[2]])
    ELSE BoxIntersects(Box(sh), Box(other))
IntersectionArea(sh, other) ==
    IF sh.kind = "ellipse"
    THEN Cardinality({q \in Quadrants(sh) : BoxContains(Box(other), q)})
    ELSE 2 * BoxCommonArea(Box(sh), Box(other))

\* a >= b for two quotients with positive denominators
RatioGeq(a, b) == a.num * b.den >= b.num * a.den

\* PopulationGeometry.overlap(comparison_poly, threshold): None, a number or an
\* exception.
PopulationGeometryOverlapAboveOnly(g, comparison_poly, threshold) ==
    LET s == GeometryShape(g)
    IN  IF s.err # "" THEN [err |-> s.err, val |-> NoProp]
        ELSE IF s.shape.kind = "none" THEN [err |-> "", val |-> NoProp]
        ELSE IF ShapeIntersects(s.shape, comparison_poly)
        THEN IF ShapeArea(s.shape) = 0 THEN [err |-> "ZeroDivisionError", val |-> NoProp]
             ELSE LET overlap == Ratio(IntersectionArea(s.shape, comparison_poly), ShapeArea(s.shape))
                  IN  IF ~RatioGeq(threshold, overlap) THEN [err |-> "", val |-> overlap]
                      ELSE [err |-> "", val |-> Ratio(0, 1)]
        ELSE [err |-> "", val |-> Ratio(0, 1)]
PopulationGeometryOverlap(g, comparison_poly, threshold) ==
    LET s == GeometryShape(g)
    IN  IF s.err # "" THEN [err |-> s.err, val |-> NoProp]
        ELSE IF s.shape.kind = "none" THEN [err |-> "", val |-> NoProp]
        ELSE IF ShapeIntersects(s.shape, comparison_poly)
        THEN IF ShapeArea(s.shape) = 0 THEN [err |-> "ZeroDivisionError", val |-> NoProp]
             ELSE LET overlap == Ratio(IntersectionArea(s.shape, comparison_poly), ShapeArea(s.shape))
                  IN  IF RatioGeq(overlap, threshold) THEN [err |-> "", val |-> overlap]
                      ELSE [err |-> "", val |-> Ratio(0, 1)]
        ELSE [err |-> "", val |-> Ratio(0, 1)]

\* ------------------------------------------------------ merge_populations
\* Population(population_name=..., parent=..., index=..., geom=...) as gating
\* leaves it: with its geometry, without clusters or control indexes.
NewGatedPopulation(name, parent, index, geom) ==
    [population_name |-> name, parent |-> parent, index |-> index, geom |-> geom,
     control_idx |-> <<>>, clusters |-> <<>>]

\* np.concatenate(a, b): the second positional argument is the axis, and an
\* array is no axis (nor are the scalars of a the arrays to join).
NpConcatenateAlongAxis(a, axis) == [err |-> "TypeError", val |-> <<>>]

\* merge_populations(left_p, right_p): the exception raised, or the new
\* population.
MergePopulations(left_p, right_p) ==
    LET Raise(e) == [err |-> e, pop |-> NewGatedPopulation("", "", None, left_p.geom)]
        ls == GeometryShape(left_p.geom)
        rs == GeometryShape(right_p.geom)
    IN  IF left_p.parent # right_p.parent THEN Raise("AssertionError")
        ELSE IF ls.err # "" THEN Raise(ls.err)
        \* None has no attribute intersects
        ELSE IF ls.shape.kind = "none" THEN Raise("AttributeError")
        ELSE IF rs.err # "" THEN Raise(rs.err)
        \* shapely: a null geometry supports no operations
        ELSE IF rs.shape.kind = "none" THEN Raise("ValueError")
        ELSE IF ~ShapeIntersects(ls.shape, rs.shape) THEN Raise("AssertionError")
        \* len(left_p.index) + len(right_p.index)
        ELSE IF left_p.index.isNone \/ right_p.index.isNone THEN Raise("TypeError")
        ELSE LET c == NpConcatenateAlongAxis(left_p.index.arr, right_p.index.arr)
             IN  IF c.err # "" THEN Raise(c.err)
                 ELSE [err |-> "",
                       pop |-> NewGatedPopulation(left_p.population_name, left_p.parent,
                                                  Some(NpUnique(c.val)), left_p.geom)]

\* ------------------------------------------- FileGroup.delete_populations
\* The characters of the population names in use.
Chars(name) ==
    CASE name = "root" -> <<"r", "o", "o", "t">>
      [] name = "T" -> <<"T">>
      [] name = "Treg" -> <<"T", "r", "e", "g">>
      [] OTHER -> <<>>
\* a in b for two strings: a is a substring of b.
StrIn(a, b) ==
    \E i \in 0..(Len(Chars(b)) - Len(Chars(a))) : SubSeq(Chars(b), i + 1, i + Len(Chars(a))) = Chars(a)

\* The populations argument of delete_populations: the builtin all, a list of
\* names or one string.
AllArg == [kind |-> "all", names |-> {}, str |-> ""]
ListArg(names) == [kind |-> "list", names |-> names, str |-> ""]
StrArg(name) == [kind |-> "str", names |-> {}, str |-> name]

\* FileGroup.delete_populations(populations) before its self.save(): the list
\* assigned to self.populations.
KeptPopulations(pops, arg) ==
    LET NotInList(q) == q.population_name \notin arg.names
        NotInStr(q) == ~StrIn(q.population_name, arg.str)
    IN  IF arg.kind = "all" THEN <<>>
        ELSE IF arg.kind = "str" THEN SelectSeq(pops, NotInStr)
        ELSE SelectSeq(pops, NotInList)

\* ----------------------------------------------------- deleting clusters
\* Population.list_clustering_experiments(): the uids, or the exception of the
\* first cluster whose definition cannot be read.
ListClusteringExperiments(p, defs) ==
    LET bad == {k \in DOMAIN p.clusters : ExperimentUid(defs, p.clusters[k]).err # ""}
    IN  IF bad # {}
        THEN [err |-> ExperimentUid(defs, p.clusters[SetMin(bad)]).err, uids |-> {}]
        ELSE [err |-> "", uids |-> {ExperimentUid(defs, p.clusters[k]).uid : k \in DOMAIN p.clusters}]

\* Population.delete_clusters(clustering_uid, drop_all); no uid (None) is "".
PopulationDeleteClusters(p, defs, clustering_uid, drop_all) ==
    LET l == ListClusteringExperiments(p, defs)
        Other(c) == ExperimentUid(defs, c).uid # clustering_uid
    IN  IF drop_all THEN [pop |-> [p EXCEPT !.clusters = <<>>], err |-> ""]
        ELSE IF clustering_uid = "" THEN [pop |-> p, err |-> "AssertionError"]
        ELSE IF l.err # "" THEN [pop |-> p, err |-> l.err]
        ELSE IF clustering_uid \notin l.uids THEN [pop |-> p, err |-> "ValueError"]
        ELSE [pop |-> [p EXCEPT !.clusters = SelectSeq(p.clusters, Other)], err |-> ""]

\* The loop of FileGroup.delete_clusters from population i on; an exception
\* leaves the populations before i changed.
RECURSIVE DeleteClustersLoop(_, _, _, _, _)
DeleteClustersLoop(pops, i, defs, clustering_uid, drop_all) ==
    IF i > Len(pops) THEN [pops |-> pops, err |-> ""]
    ELSE LET r == PopulationDeleteClusters(pops[i], defs, clustering_uid, drop_all)
         IN  IF r.err # "" THEN [pops |-> pops, err |-> r.err]
             ELSE DeleteClustersLoop([pops EXCEPT ![i] = r.pop], i + 1, defs, clustering_uid, drop_all)

\* FileGroup.delete_clusters(clustering_uid, drop_all)
FileGroupDeleteClusters(pops, st, refs, defs, clustering_uid, drop_all) ==
    IF ~drop_all /\ clustering_uid = "" THEN [pops |-> pops, fs |-> st, err |-> "AssertionError", saved |-> FALSE]
    ELSE LET l == DeleteClustersLoop(pops, 1, defs, clustering_uid, drop_all)
         IN  IF l.err # "" THEN [pops |-> l.pops, fs |-> st, err |-> l.err, saved |-> FALSE]
             ELSE LET r == FileGroupSave(l.pops, st, refs)
                  IN  [pops |-> r.pops, fs |-> r.fs, err |-> r.err, saved |-> TRUE]

\* ------------------------------------------------------------------ state
VARIABLES
    fs,         \* the GridFS collections: collection name -> store
    populations, \* FileGroup.populations, in memory
    persisted,  \* the FileGroup document as last committed
    nsaves,     \* runs of FileGroup.save() so far
    population, \* the population whose clusters are looked up or edited
    kind,       \* SpecIndex: the class of the index object under test
    obj,        \* SpecIndex: the index object
    last,       \* the most recent call and its outcome
    prev,       \* the call before it
    definitions, \* the cluster_definitions collection: id -> ClusteringDefinition
    files       \* FileGroup.files

vars == <<fs, populations, persisted, nsaves, population, kind, obj, last, prev, definitions, files>>

Collections == {"population_indexes", "control_indexes", "cluster_indexes"}
EmptyFs == [c \in Collections |-> EmptyStore]

Call(op, arg, res, err, branch, fetched) ==
    [op |-> op, arg |-> arg, res |-> res, err |-> err, branch |-> branch, fetched |-> fetched]
NoCall == Call("none", None, None, "", "none", FALSE)
Record(c) == last' = c /\ prev' = last

\* ------------------------------------------- one index object (SpecIndex)
Kinds == {"Population", "ControlIndex", "Cluster"}
\* The collection_name of each class's FileField.
CollectionOf(k) ==
    CASE k = "Population" -> "population_indexes"
      [] k = "ControlIndex" -> "control_indexes"
      [] OTHER -> "cluster_indexes"
\* A newly constructed object: no file, self.index = kwargs.get("index", None).
NewObject(k, d) ==
    IF k = "Cluster" THEN [index |-> NoFile]
    ELSE [index |-> d, index_file |-> NoFile]
FileOf(k, o) == IF k = "Cluster" THEN o.index ELSE o.index_file

InitIndex ==
    /\ fs = EmptyFs
    /\ kind \in Kinds
    /\ \E d \in Data : obj = NewObject(kind, d)
    /\ last = NoCall /\ prev = NoCall
    /\ populations = <<>> /\ persisted = NoDocument /\ nsaves = 0 /\ population = None
    /\ definitions = <<>> /\ files = <<>>

\* The caller gives the population a new in-memory index: population.index = d.
AssignIndex(d) ==
    /\ kind = "Population"
    /\ obj.index # d
    /\ obj' = [obj EXCEPT !.index = d]
    /\ UNCHANGED <<fs, kind, last, prev, populations, persisted, nsaves, population, definitions, files>>

Saved(r, arg) ==
    /\ obj' = r.obj
    /\ fs' = [fs EXCEPT ![CollectionOf(kind)] = r.st]
    /\ Record(Call("save", arg, None, r.err, r.branch, FALSE))
    /\ UNCHANGED <<kind, populations, persisted, nsaves, population, definitions, files>>

PopulationSave ==
    /\ kind = "Population"
    /\ Saved(PopulationSaveIndex(obj, fs[CollectionOf(kind)], FreshKey(fs[CollectionOf(kind)], {})), obj.index)

ControlSave(d) ==
    /\ kind = "ControlIndex"
    /\ Saved(ControlSaveIndex(obj, fs[CollectionOf(kind)], d, FreshKey(fs[CollectionOf(kind)], {})), d)

ClusterSave(d) ==
    /\ kind = "Cluster"
    /\ Saved(ClusterSaveIndex(obj, fs[CollectionOf(kind)], d, FreshKey(fs[CollectionOf(kind)], {})), d)

Loaded(r) ==
    /\ obj' = r.obj
    /\ Record(Call("load", None, r.res, r.err, "none", r.fetched))
    /\ UNCHANGED <<fs, kind, populations, persisted, nsaves, population, definitions, files>>

PopulationLoad == kind = "Population" /\ Loaded(PopulationLoadIndex(obj, fs[CollectionOf(kind)]))
ControlLoad == kind = "ControlIndex" /\ Loaded(ControlLoadIndex(obj, fs[CollectionOf(kind)]))
ClusterLoad == kind = "Cluster" /\ Loaded(ClusterLoadIndex(obj, fs[CollectionOf(kind)]))

NextIndex ==
    \/ \E d \in Data : AssignIndex(d)
    \/ PopulationSave
    \/ \E d \in Data : ControlSave(d)
    \/ \E d \in Data : ClusterSave(d)
    \/ PopulationLoad
    \/ ControlLoad
    \/ ClusterLoad

SpecIndex == InitIndex /\ [][NextIndex]_vars

\* ------------------------------------------------ one FileGroup (SpecTree)
PopNames == {"root", "A", "B"}
ParentNames == {"root", "A", "B"}
TreeIndexes == {None} \cup {Some([i \in 1..n |-> i]) : n \in 1..MaxN}
NewControls == {<<>>, <<NewControlIndex("c1", Some(<<1>>))>>}
\* The populations a caller registers: root is its own parent (the default),
\* no other population is.
NewPopulations ==
    {NewPopulation("root", "root", x, c) : x \in TreeIndexes, c \in NewControls}
    \cup {pp \in {NewPopulation(n, q, x, c) :
                    n \in PopNames \ {"root"}, q \in ParentNames, x \in TreeIndexes, c \in NewControls} :
            pp.parent # pp.population_name}

TreeCall(op, arg, err) == [op |-> op, arg |-> arg, err |-> err]

InitTree ==
    /\ fs = EmptyFs
    /\ populations = <<>>
    /\ persisted = NoDocument
    /\ nsaves = 0
    /\ last = TreeCall("none", "", "")
    /\ prev = NoCall /\ kind = "none" /\ obj = NoFile /\ population = None
    /\ definitions = <<>> /\ files = <<>>

\* The state after self.populations became pops and self.save() ran.
SavedAs(pops, op, arg) ==
    LET r == FileGroupSave(pops, fs, IndexKeys(persisted))
    IN  /\ nsaves < MaxSaves
        /\ nsaves' = nsaves + 1
        /\ populations' = r.pops
        /\ fs' = r.fs
        /\ persisted' = IF r.err = "" THEN DocumentOf(r.pops) ELSE persisted
        /\ last' = TreeCall(op, arg, r.err)
        /\ UNCHANGED <<prev, kind, obj, population, definitions, files>>

Save == SavedAs(populations, "save", "")

\* FileGroup.update_population(population_name, new_population)
Without(pops, name) ==
    LET Other(q) == q.population_name # name IN SelectSeq(pops, Other)
UpdatePopulation(name, new) ==
    /\ Len(Without(populations, name)) < MaxPops
    /\ SavedAs(Append(Without(populations, name), new), "update_population", "")

\* FileGroup.delete_populations(populations): a list of names, or all.
DeletePopulations(names) ==
    LET Kept(q) == q.population_name \notin names
    IN  SavedAs(SelectSeq(populations, Kept), "delete_populations", "")
DeleteAllPopulations == SavedAs(<<>>, "delete_populations", "all")

GetPopulation(name) ==
    LET r == FileGroupGetPopulation(populations, fs, name)
    IN  /\ populations' = r.pops
        /\ last' = TreeCall("get_population", name, r.err)
        /\ UNCHANGED <<fs, persisted, nsaves, prev, kind, obj, population, definitions, files>>

NextTree ==
    \/ Save
    \/ \E name \in PopNames, new \in NewPopulations : UpdatePopulation(name, new)
    \/ \E names \in SUBSET PopNames : DeletePopulations(names)
    \/ DeleteAllPopulations
    \/ \E name \in PopNames : GetPopulation(name)

SpecTree == InitTree /\ [][NextTree]_vars

\* ------------------------------- the clusters of one population (SpecCluster)
ClusterIds == <<"c1", "c2", "c3", "c4">>
MetaIds == {"", "M1", "M2"}
LookupIds == {"c1", "M1", "M2"}
\* The index of a cluster: the rows a clustering assigned to it, ascending.
ClusterArrays == {Ascending(S) : S \in {T \in SUBSET EventIds : Cardinality(T) <= MaxLen}}

\* The population after clustering stored its result: cluster k is named
\* ClusterIds[k], carries metas[k], and its index arrs[k] has been saved.
RECURSIVE StoreClusters(_, _, _, _)
StoreClusters(p, st, metas, arrs) ==
    IF Len(p.clusters) = Len(metas) THEN [pop |-> p, st |-> st]
    ELSE LET k == Len(p.clusters) + 1
             r == ClusterSaveIndex(NewCluster(ClusterIds[k], metas[k], "e1"), st,
                                   Some(arrs[k]), FreshKey(st, {}))
         IN StoreClusters([p EXCEPT !.clusters = Append(p.clusters, r.obj)], r.st, metas, arrs)

\* A call and its outcome; unread: no cluster's file had been read before it.
ClusterCall(op, arg, meta, unread, r) ==
    [op |-> op, arg |-> arg, meta |-> meta, unread |-> unread,
     err |-> r.err, clusters |-> r.clusters, idx |-> r.idx]
NoClusterCall ==
    [op |-> "none", arg |-> "", meta |-> FALSE, unread |-> TRUE,
     err |-> "", clusters |-> <<>>, idx |-> None]
Unread(p) == \A i \in DOMAIN p.clusters : ~p.clusters[i].index.exhausted

InitCluster ==
    /\ \E n \in 0..MaxClusters : \E metas \in [1..n -> MetaIds], arrs \in [1..n -> ClusterArrays] :
        LET r == StoreClusters(NewPopulation("root", "root", None, <<>>), EmptyStore, metas, arrs)
        IN  /\ population = r.pop
            /\ fs = [EmptyFs EXCEPT !["cluster_indexes"] = r.st]
    /\ last = NoClusterCall /\ prev = NoClusterCall
    /\ populations = <<>> /\ persisted = NoDocument /\ nsaves = 0
    /\ kind = "none" /\ obj = NoFile
    /\ definitions = <<>> /\ files = <<>>

GetCluster(id, meta) ==
    LET r == PopulationGetCluster(population, fs["cluster_indexes"], id, meta)
    IN  /\ population' = r.pop
        /\ last' = ClusterCall("get_cluster", id, meta, Unread(population), r)
        /\ UNCHANGED <<fs, populations, persisted, nsaves, kind, obj, prev, definitions, files>>

NextCluster == \E id \in LookupIds, meta \in BOOLEAN : GetCluster(id, meta)

SpecCluster == InitCluster /\ [][NextCluster]_vars

\* -------------------------- the cluster list of one population (SpecClusterList)
\* The stored definitions d1 (uid e1) and d2 (uid e2); d3 was deleted after
\* clusters had been given it.
DefinitionUids == {"e1", "e2", "e3"}
StoredDefinitions ==
    [d \in {"d1", "d2"} |-> [clustering_uid |-> IF d = "d1" THEN "e1" ELSE "e2"]]
ClusterRefs == {NoRef, "d1", "d2", "d3"}
ListedClusters ==
    {NewCluster(id, meta, ref) : id \in {"c1", "c2"}, meta \in {"", "c1"}, ref \in ClusterRefs}

\* A call, the cluster list it found, and its outcome.
ListCall(op, arg, new, before, err) ==
    [op |-> op, arg |-> arg, new |-> new, before |-> before, err |-> err]

InitClusterList ==
    /\ \E n \in 0..MaxClusters : \E cs \in [1..n -> ListedClusters] :
           population = [NewPopulation("root", "root", None, <<>>) EXCEPT !.clusters = cs]
    /\ definitions = StoredDefinitions
    /\ last = ListCall("none", "", "", <<>>, "")
    /\ prev = NoCall /\ fs = EmptyFs /\ files = <<>>
    /\ populations = <<>> /\ persisted = NoDocument /\ nsaves = 0
    /\ kind = "none" /\ obj = NoFile

UpdateCluster(cluster_id, new_cluster) ==
    LET p == PopulationUpdateCluster(population, cluster_id, new_cluster)
    IN  /\ Len(p.clusters) <= MaxClusters
        /\ population' = p
        /\ last' = ListCall("update_cluster", cluster_id, new_cluster, population.clusters, "")
        /\ UNCHANGED <<fs, populations, persisted, nsaves, kind, obj, prev, definitions, files>>

ReplaceClusterExperiment(current_uid, new_definition) ==
    LET r == PopulationReplaceClusterExperiment(population, definitions, current_uid, new_definition)
    IN  /\ population' = r.pop
        /\ last' = ListCall("replace_cluster_experiment", current_uid, new_definition,
                            population.clusters, r.err)
        /\ UNCHANGED <<fs, populations, persisted, nsaves, kind, obj, prev, definitions, files>>

NextClusterList ==
    \/ \E id \in {"c1", "c2"}, new \in ListedClusters : UpdateCluster(id, new)
    \/ \E uid \in DefinitionUids, d \in DOMAIN StoredDefinitions : ReplaceClusterExperiment(uid, d)

SpecClusterList == InitClusterList /\ [][NextClusterList]_vars


\* ------------------------------ the controls of one FileGroup (SpecControls)
\* File(file_id=..., file_type=...) of the FileGroup whose primary_id is "p".
NewFile(id, type) == [file_id |-> id, file_type |-> type]
GroupFiles ==
    {NewFile(<<"p", "_", "c">>, "control"), NewFile(<<"p", "_", "d">>, "control"),
     NewFile(<<"p", "_", "c">>, "complete")}
\* The control indexes gating attaches: for control c or d, with the index of
\* the control's events in memory or not.
GatedControlIndexes == {NewControlIndex(id, x) : id \in {<<"c">>, <<"d">>}, x \in {None, Some(<<1>>)}}
GatedNames == <<"root", "A", "B", "C">>

ControlsCall(op, res) == [op |-> op, res |-> res]

InitControls ==
    /\ \E n \in 0..MaxFiles : files \in [1..n -> GroupFiles]
    /\ \E n \in 0..MaxGated : \E m \in [1..n -> 0..MaxCtrls] :
         \E cs \in [1..n -> UNION {[1..k -> GatedControlIndexes] : k \in 0..MaxCtrls}] :
            /\ \A i \in 1..n : Len(cs[i]) = m[i]
            /\ populations = [i \in 1..n |-> NewPopulation(GatedNames[i], "root", Some(<<1>>), cs[i])]
    /\ last = ControlsCall("none", <<>>)
    /\ prev = NoCall /\ fs = EmptyFs /\ definitions = <<>>
    /\ persisted = NoDocument /\ nsaves = 0 /\ population = None
    /\ kind = "none" /\ obj = NoFile

ListGatedControls ==
    /\ last' = ControlsCall("list_gated_controls", FileGroupListGatedControls(files, populations))
    /\ UNCHANGED <<fs, populations, persisted, nsaves, population, kind, obj, prev, definitions, files>>

ListControls ==
    /\ last' = ControlsCall("list_controls", FileGroupListControls(files))
    /\ UNCHANGED <<fs, populations, persisted, nsaves, population, kind, obj, prev, definitions, files>>

NextControls == ListGatedControls \/ ListControls

SpecControls == InitControls /\ [][NextControls]_vars

\* ------------------------------------- one PopulationGeometry (SpecGeometry)
Coords == 0..MaxCoord
\* The boundary of an axis-parallel rectangle as a gate stores it: the x and
\* the y of its corners in ring order.
RectX(x0, x1) == <<x0, x1, x1, x0>>
RectY(y0, y1) == <<y0, y0, y1, y1>>
Rects == {r \in [x0 : Coords, x1 : Coords, y0 : Coords, y1 : Coords] : r.x0 < r.x1 /\ r.y0 < r.y1}
PolygonGeometries ==
    {NewGeometry(RectX(r.x0, r.x1), ys, NoFloat, NoFloat, <<>>, NoFloat, NoFloat, NoFloat) :
        r \in Rects, ys \in {<<>>}}
    \cup {NewGeometry(RectX(r.x0, r.x1), RectY(r.y0, r.y1), NoFloat, NoFloat, <<>>, NoFloat, NoFloat, NoFloat) :
            r \in Rects}
\* Ellipses about (1, 1) with unit half extents, each field set or not; the
\* angle in degrees.
EllipseGeometries ==
    {NewGeometry(<<>>, <<>>, w, h, c, a, NoFloat, NoFloat) :
        w \in {NoFloat, Float(1)}, h \in {NoFloat, Float(1)}, c \in {<<>>, <<1, 1>>},
        a \in {NoFloat, Float(0), Float(90)}}
ThresholdGeometries ==
    {NewGeometry(<<>>, <<>>, NoFloat, NoFloat, <<>>, NoFloat, Float(1), yt) : yt \in {NoFloat, Float(1)}}
Geometries == PolygonGeometries \cup EllipseGeometries \cup ThresholdGeometries
ComparisonPolygons == {Polygon(Zip(RectX(r.x0, r.x1), RectY(r.y0, r.y1))) : r \in Rects}
Thresholds == {Ratio(0, 1), Ratio(1, 2), Ratio(1, 1)}

GeometryCall(op, g, other, threshold, r) ==
    [op |-> op, geom |-> g, other |-> other, threshold |-> threshold, err |-> r.err, val |-> r.val]

InitGeometry ==
    /\ \E g \in Geometries, c \in ComparisonPolygons, t \in Thresholds :
           last = GeometryCall("none", g, c, t, [err |-> "", val |-> NoProp])
    /\ prev = NoCall /\ fs = EmptyFs /\ definitions = <<>> /\ files = <<>>
    /\ populations = <<>> /\ persisted = NoDocument /\ nsaves = 0 /\ population = None
    /\ kind = "none" /\ obj = NoFile

Overlap ==
    /\ last' = GeometryCall("overlap", last.geom, last.other, last.threshold,
                            PopulationGeometryOverlap(last.geom, last.other, last.threshold))
    /\ UNCHANGED <<fs, populations, persisted, nsaves, population, kind, obj, prev, definitions, files>>

NextGeometry == Overlap

SpecGeometry == InitGeometry /\ [][NextGeometry]_vars

\* -------------------------------------- merging two populations (SpecMerge)
\* Gates along the x axis: rectangles of height 1, and a threshold.
MergeGeometries ==
    {NewGeometry(RectX(r.x0, r.x1), RectY(0, 1), NoFloat, NoFloat, <<>>, NoFloat, NoFloat, NoFloat) :
        r \in Rects}
    \cup {NewGeometry(<<>>, <<>>, NoFloat, NoFloat, <<>>, NoFloat, Float(1), NoFloat)}
MergeIndexes == {None, Some(<<1, 2>>), Some(<<2>>)}
MergeInputs(name) ==
    {NewGatedPopulation(name, q, x, g) : q \in {"root", "A"}, x \in MergeIndexes, g \in MergeGeometries}

MergeCall(op, left_p, right_p, r) ==
    [op |-> op, left |-> left_p, right |-> right_p, err |-> r.err, pop |-> r.pop]

InitMerge ==
    /\ \E l \in MergeInputs("B"), r \in MergeInputs("C") :
           last = MergeCall("none", l, r, [err |-> "", pop |-> l])
    /\ prev = NoCall /\ fs = EmptyFs /\ definitions = <<>> /\ files = <<>>
    /\ populations = <<>> /\ persisted = NoDocument /\ nsaves = 0 /\ population = None
    /\ kind = "none" /\ obj = NoFile

Merge ==
    /\ last' = MergeCall("merge_populations", last.left, last.right,
                         MergePopulations(last.left, last.right))
    /\ UNCHANGED <<fs, populations, persisted, nsaves, population, kind, obj, prev, definitions, files>>

NextMerge == Merge

SpecMerge == InitMerge /\ [][NextMerge]_vars

\* ------------------------------- deleting populations by name (SpecDelete)
DeleteNames == {"root", "T", "Treg"}
\* A FileGroup with populations of different names, each gated from root.
InitDelete ==
    /\ \E n \in 0..MaxPops : \E names \in [1..n -> DeleteNames] :
           /\ Injective(names)
           /\ populations = [i \in 1..n |-> NewPopulation(names[i], "root", Some(<<1>>), <<>>)]
    /\ fs = EmptyFs /\ persisted = NoDocument /\ nsaves = 0
    /\ last = [op |-> "none", arg |-> AllArg, before |-> <<>>, err |-> ""]
    /\ prev = NoCall /\ definitions = <<>> /\ files = <<>>
    /\ population = None /\ kind = "none" /\ obj = NoFile

DeleteNamed(arg) ==
    LET r == FileGroupSave(KeptPopulations(populations, arg), fs, IndexKeys(persisted))
    IN  /\ nsaves < MaxSaves
        /\ nsaves' = nsaves + 1
        /\ populations' = r.pops
        /\ fs' = r.fs
        /\ persisted' = IF r.err = "" THEN DocumentOf(r.pops) ELSE persisted
        /\ last' = [op |-> "delete_populations", arg |-> arg, before |-> populations, err |-> r.err]
        /\ UNCHANGED <<prev, kind, obj, population, definitions, files>>

NextDelete ==
    \/ DeleteNamed(AllArg)
    \/ \E names \in SUBSET DeleteNames : DeleteNamed(ListArg(names))
    \/ \E name \in DeleteNames : DeleteNamed(StrArg(name))

SpecDelete == InitDelete /\ [][NextDelete]_vars

\* ------------------- the clusters of a FileGroup's populations (SpecFileClusters)
\* The clusters a clustering run stores: of definition d1 or d2.
StoredClusters == {NewCluster(id, "", ref) : id \in {"c1", "c2"}, ref \in DOMAIN StoredDefinitions}
ClusterLists == UNION {[1..n -> StoredClusters] : n \in 0..MaxClusters}
ClusteredNames == <<"root", "A">>

InitFileClusters ==
    /\ \E n \in 1..Len(ClusteredNames) : \E cs \in [1..n -> ClusterLists] :
           populations = [i \in 1..n |->
               [NewPopulation(ClusteredNames[i], "root", Some(<<1>>), <<>>) EXCEPT !.clusters = cs[i]]]
    /\ definitions = StoredDefinitions
    /\ fs = EmptyFs /\ persisted = NoDocument /\ nsaves = 0
    /\ last = [op |-> "none", arg |-> "", drop_all |-> FALSE, before |-> <<>>, err |-> ""]
    /\ prev = NoCall /\ files = <<>>
    /\ population = None /\ kind = "none" /\ obj = NoFile

DeleteClusters(clustering_uid, drop_all) ==
    LET r == FileGroupDeleteClusters(populations, fs, IndexKeys(persisted), definitions,
                                     clustering_uid, drop_all)
    IN  /\ nsaves < MaxSaves
        /\ nsaves' = IF r.saved THEN nsaves + 1 ELSE nsaves
        /\ populations' = r.pops
        /\ fs' = r.fs
        /\ persisted' = IF r.saved /\ r.err = "" THEN DocumentOf(r.pops) ELSE persisted
        /\ last' = [op |-> "delete_clusters", arg |-> clustering_uid, drop_all |-> drop_all,
                    before |-> populations, err |-> r.err]
        /\ UNCHANGED <<prev, kind, obj, population, definitions, files>>

NextFileClusters ==
    \E uid \in DefinitionUids \cup {""}, drop_all \in BOOLEAN : DeleteClusters(uid, drop_all)

SpecFileClusters == InitFileClusters /\ [][NextFileClusters]_vars

\* ------------------------------------------------- claims on one FileGroup
SavingOps == {"save", "update_population", "delete_populations"}
RatioIs(r, a, b) == ~r.isNone /\ r.num * b = a * r.den
NonRoot(pops) == {i \in DOMAIN pops : pops[i].population_name # "root"}
HasRoot(pops) == Named(pops, "root") # <<>>
ParentsResolve(pops) == \A i \in NonRoot(pops) : Named(pops, pops[i].parent) # <<>>
AllMaterialized(pops) ==
    \A i \in DOMAIN pops :
        /\ ~pops[i].index.isNone
        /\ \A j \in DOMAIN pops[i].control_idx : ~pops[i].control_idx[j].index.isNone
NamesUnique(pops) ==
    \A i, j \in DOMAIN pops : i # j => pops[i].population_name # pops[j].population_name
TreeShape(ps) == [i \in DOMAIN ps |-> <<ps[i].population_name, ps[i].parent>>]

\* C1: after a save() that completed on a tree (names unique), every non-root
\* population p has prop_of_total = n(p)/n(root) and prop_of_parent = n(p)/n(q)
\* for the population q named p.parent, at any depth of the tree.
ProportionsOfSavedTree ==
    (last.op \in SavingOps /\ last.err = "" /\ NamesUnique(populations)) =>
        \A i \in NonRoot(populations) :
            LET p == populations[i]
                root == Named(populations, "root")
                q == Named(populations, p.parent)
            IN  /\ \A k \in DOMAIN root : RatioIs(p.prop_of_total, PopN(p), PopN(root[k]))
                /\ \A k \in DOMAIN q :
                       PopN(q[k]) > 0 => RatioIs(p.prop_of_parent, PopN(p), PopN(q[k]))

\* C2: a save() of a tree without a root, or with a non-root population whose
\* parent names no population, fails, and writes no file and commits nothing.
MalformedTreeSaveFailsWhole ==
    [][(nsaves' # nsaves /\ (~HasRoot(populations') \/ ~ParentsResolve(populations'))) =>
           (last'.err # "" /\ fs' = fs /\ persisted' = persisted)]_vars

\* C3: a save() of a tree that has a root, whose parents resolve and whose
\* populations and control indices are all materialized succeeds, and what it
\* commits has every proportion recomputed and every population and control
\* index written from memory.
WellFormedTreeSaveCommits ==
    (last.op \in SavingOps /\ HasRoot(populations) /\ ParentsResolve(populations)
        /\ AllMaterialized(populations)) =>
        /\ last.err = ""
        /\ persisted = DocumentOf(populations)
        /\ \A i \in DOMAIN populations :
            LET p == populations[i]
            IN  /\ ~p.prop_of_parent.isNone /\ ~p.prop_of_total.isNone
                /\ p.index_file.grid_id \in DOMAIN fs["population_indexes"]
                /\ fs["population_indexes"][p.index_file.grid_id] = Dumps(p.index)
                /\ \A j \in DOMAIN p.control_idx :
                    LET c == p.control_idx[j]
                    IN  /\ c.index_file.grid_id \in DOMAIN fs["control_indexes"]
                        /\ fs["control_indexes"][c.index_file.grid_id] = Dumps(c.index)

\* C4: no two populations of the tree share a name, and get_population(name)
\* fails exactly when no population has that name.
PopulationNamesUnique ==
    /\ NamesUnique(populations)
    /\ last.op = "get_population" =>
           (last.err # "" <=> Named(populations, last.arg) = <<>>)

\* C5: when update_population or delete_populations has finished, normally or
\* by raising, the committed document describes the tree that is in memory.
MutationsArePersisted ==
    (last.op \in {"update_population", "delete_populations"}) =>
        TreeShape(persisted.populations) = TreeShape(populations)

\* ------------------------------------------------ claims on one index object
TheFile == FileOf(kind, obj)
TheStore == fs[CollectionOf(kind)]
Wrote(c) == c.op = "save" /\ c.branch # "none"

\* C6: a load that directly follows a save of a non-empty sequence X returns
\* exactly X, whether that save created the file or replaced an earlier one, and
\* after every save that wrote, the index has exactly one live file, holding
\* what was saved.
IndexRoundTrip ==
    /\ Wrote(last) =>
          /\ DOMAIN TheStore = {TheFile.grid_id}
          /\ Cardinality(DOMAIN TheStore) = 1
          /\ TheStore[TheFile.grid_id] = Dumps(last.arg)
    /\ (last.op = "load" /\ Wrote(prev) /\ ~prev.arg.isNone /\ prev.arg.arr # <<>>) =>
          /\ last.err = ""
          /\ last.res = prev.arg

\* A load returned the non-empty sequence that a replacing save had just stored.
IndexRoundTripWitness ==
    /\ last.op = "load" /\ prev.op = "save" /\ prev.branch = "replace"
    /\ ~prev.arg.isNone /\ prev.arg.arr # <<>>
    /\ last.res = prev.arg
    /\ Cardinality(DOMAIN TheStore) = 1

\* C7: a load that directly follows a load which returned a sequence returns
\* the same sequence, without pulling bytes from the store again.
RepeatedLoadSame ==
    (last.op = "load" /\ prev.op = "load" /\ prev.err = "" /\ ~prev.res.isNone) =>
        /\ last.err = ""
        /\ last.res = prev.res
        /\ ~last.fetched

\* C8: a save whose data is absent raises and writes nothing, for each class.
SaveAbsentFails ==
    (last.op = "save" /\ last.arg.isNone) =>
        /\ last.err # ""
        /\ last.branch = "none"

\* C9: a load on an object that has no file returns None and raises nothing,
\* for each class.
LoadUnsavedAbsent ==
    (last.op = "load" /\ TheFile.grid_id = 0) =>
        /\ last.err = ""
        /\ last.res.isNone

\* ------------------------------------- claims on the clusters of a population
MetaGroup(id) == {i \in DOMAIN population.clusters : population.clusters[i].meta_cluster_id = id}
\* The event ids in the stored index of cluster i: the file's bytes after the
\* length byte.
StoredIds(i) == Range(Tail(fs["cluster_indexes"][population.clusters[i].index.grid_id]))

\* C10: get_cluster(id, meta=True) fails when no cluster carries the meta id;
\* what it returns is every cluster carrying it and the union of their indices
\* with each event id once; and it returns when the group is non-empty and no
\* index was read before.
MetaClusterUnion ==
    (last.op = "get_cluster" /\ last.meta) =>
        /\ MetaGroup(last.arg) = {} => last.err = "AssertionError"
        /\ (MetaGroup(last.arg) # {} /\ last.unread) => last.err = ""
        /\ (MetaGroup(last.arg) # {} /\ last.err = "") =>
              /\ Range(last.clusters) = MetaGroup(last.arg)
              /\ Len(last.clusters) = Cardinality(MetaGroup(last.arg))
              /\ ~last.idx.isNone
              /\ Range(last.idx.arr) = UNION {StoredIds(i) : i \in MetaGroup(last.arg)}
              /\ Injective(last.idx.arr)

\* Two clusters of one meta cluster with an event id in common were merged.
MetaClusterUnionWitness ==
    /\ last.op = "get_cluster" /\ last.meta /\ last.err = ""
    /\ Len(last.clusters) >= 2
    /\ \E i, j \in MetaGroup(last.arg) : i # j /\ StoredIds(i) \cap StoredIds(j) # {}
    /\ \E i \in MetaGroup(last.arg) : StoredIds(i) # Range(last.idx.arr)

\* --------------------------------- claims on the cluster list of a population
ClusterIdsUnique(cs) == \A i, j \in DOMAIN cs : i # j => cs[i].cluster_id # cs[j].cluster_id
WithoutClusterId(cs, id) == LET Other(c) == c.cluster_id # id IN SelectSeq(cs, Other)

\* C11: after update_cluster(cluster_id, new_cluster) on a list without
\* duplicate cluster ids, no two clusters share a cluster id, and the list is
\* the earlier clusters of every other cluster id (whatever their meta id), in
\* their order, followed by new_cluster.
UpdateClusterReplacesById ==
    (last.op = "update_cluster" /\ ClusterIdsUnique(last.before)) =>
        /\ ClusterIdsUnique(population.clusters)
        /\ population.clusters = Append(WithoutClusterId(last.before, last.arg), last.new)

\* C16: replace_cluster_experiment(current_uid, new_definition) leaves every
\* cluster in its place, gives new_definition to exactly the clusters whose
\* definition has the uid current_uid, leaves every other cluster's reference
\* as it was, and changes no stored definition.
ReplaceRepointsExactly ==
    (last.op = "replace_cluster_experiment") =>
        /\ definitions = StoredDefinitions
        /\ Len(population.clusters) = Len(last.before)
        /\ \A i \in DOMAIN last.before :
              LET u == ExperimentUid(definitions, last.before[i])
              IN  population.clusters[i] =
                      IF u.err = "" /\ u.uid = last.arg
                      THEN [last.before[i] EXCEPT !.cluster_experiment = last.new]
                      ELSE last.before[i]

\* ------------------------------------------- claims on a FileGroup's controls
ControlFileIds == Range(FileGroupListControls(files))
\* A control index that is there: its events are in memory or in a file.
NonAbsent(c) == ~c.index.isNone \/ ProxyBool(c.index_file)
GatedIn(p, id) ==
    \E j \in DOMAIN p.control_idx : p.control_idx[j].control_id = id /\ NonAbsent(p.control_idx[j])

\* C12: list_gated_controls() lists a control id exactly when it is the id of
\* a file tagged 'control' and every population of the tree has a non-absent
\* control index for it.
GatedControlsComplete ==
    (last.op = "list_gated_controls") =>
        \A id \in ControlFileIds \cup Range(last.res) :
            (id \in Range(last.res)) <=>
                (id \in ControlFileIds /\ \A i \in DOMAIN populations : GatedIn(populations[i], id))

\* ------------------------------------------------ claims on a geometry
PolygonPopulated(g) == g.x_values # <<>> /\ g.y_values # <<>>
EllipsePopulated(g) == ~g.width.isNone /\ ~g.height.isNone /\ g.center # <<>> /\ ~g.angle.isNone
HasShape(g) == GeometryShape(g).err = "" /\ GeometryShape(g).shape.kind # "none"

\* C14: overlap() returns None, raising nothing, exactly when the geometry has
\* neither x and y boundary values nor all of center, width, height and angle;
\* with these four set, whatever the angle, it returns a number; and a geometry
\* of thresholds only gets None.
OverlapIncompleteSignal ==
    (last.op = "overlap") =>
        /\ (last.err = "" /\ last.val.isNone) <=>
               (~PolygonPopulated(last.geom) /\ ~EllipsePopulated(last.geom))
        /\ (~PolygonPopulated(last.geom) /\ EllipsePopulated(last.geom)) =>
               (last.err = "" /\ ~last.val.isNone)

\* C15: for a geometry that has a shape, overlap(other, threshold) is 0 when
\* the shapes do not meet, when they meet without sharing area, and when
\* area(intersection)/area(self) is below threshold; otherwise it is
\* area(intersection)/area(self).
OverlapFractionOfSelf ==
    (last.op = "overlap" /\ HasShape(last.geom)) =>
        LET sh == GeometryShape(last.geom).shape
            inter == IntersectionArea(sh, last.other)
            area == ShapeArea(sh)
        IN  /\ last.err = "" /\ ~last.val.isNone
            /\ IF \/ ~ShapeIntersects(sh, last.other)
                  \/ inter = 0
                  \/ inter * last.threshold.den < last.threshold.num * area
               THEN last.val.num = 0
               ELSE RatioIs(last.val, inter, area)

\* A rectangle half inside another got 1/2 at threshold 1/2, where the other
\* lies wholly inside it and would get 1.
OverlapFractionOfSelfWitness ==
    /\ last.op = "overlap" /\ HasShape(last.geom) /\ last.err = ""
    /\ last.threshold = Ratio(1, 2)
    /\ RatioIs(last.val, 1, 2)
    /\ GeometryShape(last.geom).shape.kind = "polygon"
    /\ BoxContains(Box(GeometryShape(last.geom).shape), Box(last.other))

\* ------------------------------------------------------- claims on a merge
ShapesMeet(l, r) ==
    /\ HasShape(l.geom) /\ HasShape(r.geom)
    /\ ShapeIntersects(GeometryShape(l.geom).shape, GeometryShape(r.geom).shape)

\* C13: merge_populations(left, right) fails when the parents differ and when
\* the shapes do not intersect; with equal parents and intersecting shapes it
\* returns a population whose index holds each event of left.index and of
\* right.index once and nothing else.
MergeContract ==
    (last.op = "merge_populations") =>
        /\ last.left.parent # last.right.parent => last.err # ""
        /\ (HasShape(last.left.geom) /\ HasShape(last.right.geom) /\ ~ShapesMeet(last.left, last.right))
               => last.err # ""
        /\ (last.left.parent = last.right.parent /\ ShapesMeet(last.left, last.right)
               /\ ~last.left.index.isNone /\ ~last.right.index.isNone) =>
               /\ last.err = ""
               /\ ~last.pop.index.isNone
               /\ Injective(last.pop.index.arr)
               /\ Range(last.pop.index.arr) = Range(last.left.index.arr) \cup Range(last.right.index.arr)

\* ------------------------------------------- claims on deleting populations
\* The names a call of delete_populations gives.
GivenNames(arg) ==
    IF arg.kind = "all" THEN DeleteNames
    ELSE IF arg.kind = "str" THEN {arg.str}
    ELSE arg.names

\* C17: after delete_populations(names), with names a list of names, one name
\* as a string, or all, the tree holds the earlier populations whose name is
\* none of the given names, in their order, and no other.
DeleteRemovesNamed ==
    (last.op = "delete_populations") =>
        LET Stays(q) == q.population_name \notin GivenNames(last.arg)
        IN  TreeShape(populations) = TreeShape(SelectSeq(last.before, Stays))

\* ---------------------------------- claims on a FileGroup's clusters
UsesUid(p, uid) == \E k \in DOMAIN p.clusters : ExperimentUid(definitions, p.clusters[k]).uid = uid
WithoutUid(cs, uid) ==
    LET Other(c) == ExperimentUid(definitions, c).uid # uid IN SelectSeq(cs, Other)

\* C18: FileGroup.delete_clusters(uid) for a uid some population's clusters
\* use completes, leaves in every population the clusters of other uids and
\* only them, and commits; delete_clusters(drop_all=True) leaves no population
\* with a cluster.
DeleteClustersByUid ==
    (last.op = "delete_clusters") =>
        /\ (~last.drop_all /\ \E i \in DOMAIN last.before : UsesUid(last.before[i], last.arg)) =>
              /\ last.err = ""
              /\ Len(populations) = Len(last.before)
              /\ \A i \in DOMAIN last.before :
                     populations[i].clusters = WithoutUid(last.before[i].clusters, last.arg)
              /\ persisted = DocumentOf(populations)
        /\ last.drop_all =>
              \A i \in DOMAIN populations : populations[i].clusters = <<>>

====
